---------------------------- MODULE Spec2Model ----------------------------
(***************************************************************************)
(* A model of the 8080gogo emulator (bragr/8080gogo), the most complete    *)
(* revision of the program: src/unnamed/part_000 lines 1-814.              *)
(*                                                                         *)
(* The processor state is the Go struct State, kept as a record.  Bytes    *)
(* are 0..255 and words 0..65535; every Go expression keeps its width      *)
(* (uint8, uint16, uint32) by an explicit modulus.  The 65536-byte memory  *)
(* array is kept as a function on the addresses of its non-zero cells; a   *)
(* cell outside the domain holds 0 (Go zero-fills the array).              *)
(***************************************************************************)
EXTENDS Integers, Sequences, FiniteSets, TLC

VARIABLES
    d,        \* main: the bytes read from the ROM file (ioutil.ReadAll)
    state,    \* main: *State, the processor state
    status,   \* position of main: STARTUP, RUNNING, or how the process ended
    exitCode, \* the argument of os.Exit, NoExit while the process runs
    trace,    \* the last line Emulate printed: <<pc, opcode>>
    unimpl,   \* the opcode unimplemented() printed, NoOpcode if none
    hist,     \* history: the State before each of the last MaxHist calls of Emulate
    steps     \* history: the number of calls of Emulate so far

vars == <<d, state, status, exitCode, trace, unimpl, hist, steps>>

(***************************************************************************)
(* Program constants.                                                      *)
(***************************************************************************)
ZERO == 255
SIGN == 128
CARRY == 255
ROUND == 255

Byte == 256
Word == 65536

NoExit == -1
NoOpcode == -1

(***************************************************************************)
(* Go's operators on unsigned integers.                                    *)
(***************************************************************************)
RECURSIVE BitAnd(_, _)
BitAnd(x, y) ==
    IF x = 0 \/ y = 0 THEN 0
    ELSE (x % 2) * (y % 2) + 2 * BitAnd(x \div 2, y \div 2)

RECURSIVE BitOr(_, _)
BitOr(x, y) ==
    IF x = 0 THEN y
    ELSE IF y = 0 THEN x
    ELSE ((x % 2) + (y % 2) - (x % 2) * (y % 2)) + 2 * BitOr(x \div 2, y \div 2)

RECURSIVE BitXor(_, _)
BitXor(x, y) ==
    IF x = 0 THEN y
    ELSE IF y = 0 THEN x
    ELSE (((x % 2) + (y % 2)) % 2) + 2 * BitXor(x \div 2, y \div 2)

\* x >> n
Shr(x, n) == x \div (2 ^ n)

\* uint8(x), uint16(x)
U8(x) == x % Byte
U16(x) == x % Word

\* x * y modulo m, by shift and add: no intermediate value exceeds 3 * m
RECURSIVE MulMod(_, _, _)
MulMod(x, y, m) ==
    IF y = 0 THEN 0
    ELSE ((IF y % 2 = 1 THEN x % m ELSE 0) + 2 * MulMod(x, y \div 2, m)) % m

\* The low 16 bits of the product x * y.  For a uint16 product this is the
\* product; of a uint32 product the code keeps only uint8(product >> 8),
\* bits 8 to 15, which the low 16 bits hold.
Mul16(x, y) == MulMod(x, y, Word)

(***************************************************************************)
(* State.memory                                                            *)
(***************************************************************************)
MemRead(memory, adr) == IF adr \in DOMAIN memory THEN memory[adr] ELSE 0

MemWrite(memory, adr, v) ==
    IF v = 0
    THEN [x \in (DOMAIN memory) \ {adr} |-> memory[x]]
    ELSE [x \in (DOMAIN memory) \cup {adr} |-> IF x = adr THEN v ELSE memory[x]]

Store(s, adr, v) == [s EXCEPT !.memory = MemWrite(s.memory, adr, v)]

\* copy(state.memory[:], d)
CopyImage(img) ==
    [x \in {i \in 0 .. Len(img) - 1 : i < Word /\ img[i + 1] # 0} |-> img[x + 1]]

(***************************************************************************)
(* Conditions and State                                                    *)
(***************************************************************************)
CondFields == <<"cy", "pad1", "p", "pad2", "ac", "pad3", "z", "s">>

NewConditions ==
    [cy |-> FALSE, pad1 |-> FALSE, p |-> FALSE, pad2 |-> FALSE,
     ac |-> FALSE, pad3 |-> FALSE, z |-> FALSE, s |-> FALSE]

NewState ==
    [a |-> 0, b |-> 0, c |-> 0, d |-> 0, e |-> 0, h |-> 0, l |-> 0,
     sp |-> 0, pc |-> 0, memory |-> <<>>, cond |-> NewConditions, enable |-> 0]

(***************************************************************************)
(* The accessors of State                                                  *)
(***************************************************************************)
getBC(s) == BitOr(U16(s.b * 256), s.c)

setBC(s, bc) ==
    [s EXCEPT !.b = U8(Shr(Mul16(bc, \hFF00), 8)),
              !.c = U8(BitAnd(bc, \hFF))]

getDE(s) == BitOr(U16(s.d * 256), s.e)

setDE(s, de) ==
    [s EXCEPT !.e = U8(Shr(Mul16(de, \hFF00), 8)),
              !.d = U8(BitAnd(de, \hFF))]

getHL(s) == BitOr(U16(s.h * 256), s.l)

setHL(s, hl) ==
    [s EXCEPT !.l = U8(Shr(Mul16(hl, \hFF00), 8)),
              !.h = U8(BitAnd(hl, \hFF))]

getCarry(s) == IF s.cond.cy THEN 1 ELSE 0

\* result is a uint32 below 2^17: result & 0xffff0000 is its bits 16 and up
setCarry(s, result) ==
    [s EXCEPT !.cond.cy = (Shr(result, 16) * Word # 0)]

\* mutant of getAddr: the two indices are not reduced to 16 bits, so past
\* 0xFFFF they name no cell of the memory
getAddrNoWrap(s) ==
    BitOr(U16(MemRead(s.memory, s.pc + 2) * 256),
          MemRead(s.memory, s.pc + 1))

getAddr(s) ==
    BitOr(U16(MemRead(s.memory, U16(s.pc + 2)) * 256),
          MemRead(s.memory, U16(s.pc + 1)))

\* mutant of unimplemented: the opcode is printed and the process ends with
\* status 0
unimplementedExitsZero(s) ==
    [status |-> "FAULTED", msg |-> MemRead(s.memory, s.pc), code |-> 0]

\* mutant of unimplemented: the opcode is printed and the call returns, so
\* the loop of main goes on
unimplementedReturns(s) ==
    [status |-> "RUNNING", msg |-> MemRead(s.memory, s.pc), code |-> NoExit]

\* prints the opcode at s.pc and calls os.Exit(1)
unimplemented(s) ==
    [status |-> "FAULTED", msg |-> MemRead(s.memory, s.pc), code |-> 1]

\* the loop of parity: the number of set bits among the low SIZE bits
RECURSIVE CountBits(_, _)
CountBits(answer, n) ==
    IF n = 0 THEN 0
    ELSE (IF BitAnd(answer, 1) > 0 THEN 1 ELSE 0) + CountBits(Shr(answer, 1), n - 1)

\* mutant of parity: SIZE is 7, the loop leaves bit 7 out
parityLow7(s, answer) ==
    LET SIZE == 7
        masked == BitAnd(answer, (2 ^ SIZE) - 1)
        p == U8(CountBits(masked, SIZE))
    IN  [s EXCEPT !.cond.p = (BitAnd(p, 1) = 0)]

parity(s, answer) ==
    LET SIZE == 8
        masked == BitAnd(answer, (2 ^ SIZE) - 1)
        p == U8(CountBits(masked, SIZE))
    IN  [s EXCEPT !.cond.p = (BitAnd(p, 1) = 0)]

\* mutant of doArithFlags: the carry compares with >= in place of >
doArithFlagsCarryGe(s, answer) ==
    LET s1 == [s EXCEPT !.cond.z = (BitAnd(answer, ZERO) = 0),
                        !.cond.s = (BitAnd(answer, SIGN) # 0),
                        !.cond.cy = (answer >= CARRY)]
    IN  parity(s1, U8(answer))

doArithFlags(s, answer) ==
    LET s1 == [s EXCEPT !.cond.z = (BitAnd(answer, ZERO) = 0),
                        !.cond.s = (BitAnd(answer, SIGN) # 0),
                        !.cond.cy = (answer > CARRY)]
    IN  parity(s1, U8(answer))

\* mutant of doLogicFlags: AC is cleared, as CY was meant to be
doLogicFlagsClearsAc(s) ==
    LET s1 == [s EXCEPT !.cond.z = (s.a = 0),
                        !.cond.s = (BitAnd(s.a, U8(SIGN)) # 0),
                        !.cond.cy = ~s.cond.ac,
                        !.cond.ac = FALSE]
    IN  parity(s1, s.a)

doLogicFlags(s) ==
    LET s1 == [s EXCEPT !.cond.z = (s.a = 0),
                        !.cond.s = (BitAnd(s.a, U8(SIGN)) # 0),
                        !.cond.cy = ~s.cond.ac]
    IN  parity(s1, s.a)

\* mutant of doZSPFlags: CY is cleared as well
doZSPFlagsClearsCarry(s, result) ==
    LET s1 == [s EXCEPT !.cond.z = (result = 0),
                        !.cond.s = (BitAnd(result, U8(SIGN)) # 0),
                        !.cond.cy = FALSE]
    IN  parity(s1, result)

doZSPFlags(s, result) ==
    LET s1 == [s EXCEPT !.cond.z = (result = 0),
                        !.cond.s = (BitAnd(result, U8(SIGN)) # 0)]
    IN  parity(s1, result)

\* mutant of push: the two bytes are stored in the other order
pushSwapped(s, high, low) ==
    LET s1 == Store(s, U16(s.sp - 1), low)
        s2 == Store(s1, U16(s.sp - 2), high)
    IN  [s2 EXCEPT !.sp = U16(s.sp - 2)]

push(s, high, low) ==
    LET s1 == Store(s, U16(s.sp - 1), high)
        s2 == Store(s1, U16(s.sp - 2), low)
    IN  [s2 EXCEPT !.sp = U16(s.sp - 2)]

\* mutant of pop: high is read from memory[sp] and low from memory[sp + 1]
popHighFirst(s) ==
    [low |-> MemRead(s.memory, U16(s.sp + 1)),
     high |-> MemRead(s.memory, s.sp),
     s |-> [s EXCEPT !.sp = U16(s.sp + 2)]]

pop(s) ==
    [low |-> MemRead(s.memory, s.sp),
     high |-> MemRead(s.memory, U16(s.sp + 1)),
     s |-> [s EXCEPT !.sp = U16(s.sp + 2)]]

(***************************************************************************)
(* Emulate: the switch on the opcode.  Each operator below gives the State *)
(* at the end of the case of its opcodes, before the s.pc += 1 that closes *)
(* Emulate.  The operand of an instruction is numbered as the 8080 does:   *)
(* 0 B, 1 C, 2 D, 3 E, 4 H, 5 L, 6 M, 7 A.                                 *)
(***************************************************************************)
RegNames == <<"b", "c", "d", "e", "h", "l", "m", "a">>

Reg(s, r) == s[RegNames[r + 1]]

SetReg(s, r, v) == [s EXCEPT ![RegNames[r + 1]] = v]

IncPc(s, n) == [s EXCEPT !.pc = U16(s.pc + n)]

\* case 0x01, 0x11, 0x21: LXI B / D / H:  two of s.pc++; low = memory[pc]
LXI(s, high, low) ==
    LET s1 == IncPc(s, 1)
        s2 == SetReg(s1, low, MemRead(s1.memory, s1.pc))
        s3 == IncPc(s2, 1)
    IN  SetReg(s3, high, MemRead(s3.memory, s3.pc))

\* case 0x04, 0x0c, ...: INR r:  s.r++; doZSPFlags(s.r)
INR(s, r) ==
    LET s1 == SetReg(s, r, U8(Reg(s, r) + 1))
    IN  doZSPFlags(s1, Reg(s1, r))

\* mutant of DCR: the decrement stops at 0 in place of wrapping to 0xFF
DCRNoWrap(s, r) ==
    LET s1 == SetReg(s, r, IF Reg(s, r) = 0 THEN 0 ELSE Reg(s, r) - 1)
    IN  doZSPFlags(s1, Reg(s1, r))

\* case 0x05, 0x0d, ...: DCR r:  s.r--; doZSPFlags(s.r)
DCR(s, r) ==
    LET s1 == SetReg(s, r, U8(Reg(s, r) - 1))
    IN  doZSPFlags(s1, Reg(s1, r))

\* case 0x06, 0x0e, 0x16, 0x1e, 0x26: MVI r,D8
MVI(s, r) ==
    LET s1 == IncPc(s, 1)
    IN  SetReg(s1, r, MemRead(s1.memory, s1.pc))

\* case 0x09, 0x19: DAD B / DAD D, with the pair's value.  The uint32 sums
\* of DAD stay below 2^17 and never wrap.
DAD(s, pair) ==
    LET result == getHL(s) + pair
        s1 == [s EXCEPT !.h = U8(Shr(Mul16(result, \hFF00), 8)),
                        !.l = U8(BitAnd(result, \hFF))]
    IN  setCarry(s1, result)

\* case 0x29, 0x39: DAD H / DAD SP, with the 32-bit result
DADset(s, result) == setCarry(setHL(s, U16(result)), result)

Exec00to3F(s, opcode) ==
    CASE opcode = \h00 -> s                                          \* NOP
      [] opcode \in {\h01, \h11, \h21} ->                                \* LXI B/D/H
            LXI(s, (opcode \div 16) * 2, (opcode \div 16) * 2 + 1)
      [] opcode = \h02 -> Store(s, getBC(s), s.a)                    \* STAX B
      [] opcode = \h03 ->                                            \* INX B
            LET s1 == [s EXCEPT !.c = U8(s.c + 1)]
            IN  IF s1.c = 0 THEN [s1 EXCEPT !.b = U8(s1.b + 1)] ELSE s1
      [] opcode \in {\h04, \h0C, \h14, \h1C, \h24, \h2C, \h3C} -> INR(s, opcode \div 8)
      [] opcode \in {\h05, \h0D, \h15, \h1D, \h25, \h2D, \h3D} -> DCR(s, opcode \div 8)
      [] opcode \in {\h06, \h0E, \h16, \h1E, \h26} -> MVI(s, opcode \div 8)
      [] opcode = \h07 ->                                            \* RLC
            LET bit7 == BitAnd(s.a, \h80)
            IN  [s EXCEPT !.a = BitOr(U8(s.a * 2), Shr(bit7, 7)),
                          !.cond.cy = (bit7 = \h80)]
      [] opcode = \h09 -> DAD(s, getBC(s))                           \* DAD B
      [] opcode = \h0A -> [s EXCEPT !.a = MemRead(s.memory, getBC(s))] \* LDAX B
      [] opcode = \h0B -> setBC(s, U16(getBC(s) - 1))               \* DCX B
      [] opcode = \h0F ->                                           \* RRC
            LET bit0 == BitAnd(s.a, 1)
            IN  [s EXCEPT !.a = BitOr(Shr(s.a, 1), U8(bit0 * 128)),
                          !.cond.cy = (bit0 = 1)]
      [] opcode = \h12 -> Store(s, getDE(s), s.a)                   \* STAX D
      [] opcode = \h13 -> Store(s, getDE(s), s.a)                   \* INX D
      [] opcode = \h17 ->                                           \* RAL
            LET bit7 == BitAnd(s.a, \h80)
                s1 == IF s.cond.cy THEN [s EXCEPT !.a = BitOr(s.a, 1)] ELSE s
            IN  [s1 EXCEPT !.cond.cy = (bit7 = \h80)]
      [] opcode = \h19 -> DAD(s, getDE(s))                          \* DAD D
      [] opcode = \h1A -> [s EXCEPT !.a = MemRead(s.memory, getDE(s))] \* LDAX D
      [] opcode = \h1B -> setDE(s, U16(getDE(s) - 1))               \* DCX D
      [] opcode = \h1F ->                                           \* RAR
            LET s1 == [s EXCEPT !.cond.cy = (BitAnd(s.a, 1) = 1)]
                bit7 == BitAnd(s1.a, \h80)
            IN  [s1 EXCEPT !.a = BitOr(Shr(s1.a, 1), bit7)]
      [] opcode = \h22 ->                                           \* SHLD adr
            LET adr == getAddr(s)
                s1 == IncPc(s, 2)
                s2 == Store(s1, adr, s1.l)
            IN  Store(s2, U16(adr + 1), s2.h)
      [] opcode = \h23 -> setHL(s, U16(getHL(s) + 1))               \* INX H
      [] opcode = \h29 -> DADset(s, 2 * getHL(s))                   \* DAD H
      [] opcode = \h2A ->                                           \* LHLD adr
            LET adr == getAddr(s)
                s1 == IncPc(s, 2)
                s2 == [s1 EXCEPT !.l = MemRead(s1.memory, adr)]
            IN  [s2 EXCEPT !.h = MemRead(s2.memory, U16(adr + 1))]
      [] opcode = \h2B -> setHL(s, U16(getHL(s) - 1))               \* DCX H
      [] opcode = \h2F -> [s EXCEPT !.a = 255 - s.a]                \* CMA
      [] opcode = \h31 ->                                           \* LXI SP,D16
            IncPc([s EXCEPT !.sp = getAddr(s)], 2)
      [] opcode = \h32 ->                                           \* STA adr
            IncPc(Store(s, getAddr(s), s.a), 1)
      [] opcode = \h33 -> [s EXCEPT !.sp = U16(s.sp + 1)]           \* INX SP
      [] opcode = \h34 ->                                           \* INR M
            LET hl == getHL(s)
                s1 == Store(s, hl, U8(MemRead(s.memory, hl) + 1))
            IN  doZSPFlags(s1, MemRead(s1.memory, hl))
      [] opcode = \h35 ->                                           \* DCR M
            LET hl == getHL(s)
                s1 == Store(s, hl, U8(MemRead(s.memory, hl) - 1))
            IN  doZSPFlags(s1, MemRead(s1.memory, hl))
      [] opcode = \h36 ->                                           \* MVI M,D8
            LET s1 == IncPc(s, 1)
            IN  Store(s1, getHL(s1), MemRead(s1.memory, s1.pc))
      [] opcode = \h37 -> [s EXCEPT !.cond.cy = TRUE]               \* STC
      [] opcode = \h39 -> DADset(s, getHL(s) + s.sp)                \* DAD SP
      [] opcode = \h3A ->                                           \* LDA adr
            IncPc([s EXCEPT !.a = MemRead(s.memory, getAddr(s))], 2)
      [] opcode = \h3B -> [s EXCEPT !.sp = U16(s.sp - 1)]           \* DCX SP
      [] opcode = \h3F -> [s EXCEPT !.cond.cy = ~s.cond.cy]         \* CMC

\* case 0x40 .. 0x7f but 0x76: MOV dst,src.  The M operand is
\* s.memory[s.getAddr()] in every one of them.
MOV(s, dst, src) ==
    LET v == IF src = 6 THEN MemRead(s.memory, getAddr(s)) ELSE Reg(s, src)
    IN  IF dst = 6 THEN Store(s, getAddr(s), v) ELSE SetReg(s, dst, v)

\* the accumulator arithmetic: doArithFlags(answer); s.a = byte(answer & ROUND)
Arith(s, answer) ==
    LET s1 == doArithFlags(s, answer)
    IN  [s1 EXCEPT !.a = U8(BitAnd(answer, ROUND))]

\* case 0x80 .. 0x87: ADD r
ADD(s, r) ==
    LET v == IF r = 6 THEN MemRead(s.memory, getHL(s)) ELSE Reg(s, r)
    IN  Arith(s, U16(s.a + v))

\* case 0x88 .. 0x8f: ADC r (ADC A adds s.d)
ADC(s, r) ==
    LET v == IF r = 6 THEN MemRead(s.memory, getHL(s))
             ELSE IF r = 7 THEN s.d ELSE Reg(s, r)
    IN  Arith(s, U16(s.a + v + getCarry(s)))

\* case 0x90 .. 0x97: SUB r
SUB(s, r) ==
    LET v == IF r = 6 THEN MemRead(s.memory, getHL(s)) ELSE Reg(s, r)
    IN  Arith(s, U16(s.a - v))

\* case 0x98 .. 0x9f: SBB r (SBB A subtracts s.d)
SBB(s, r) ==
    LET v == IF r = 6 THEN MemRead(s.memory, getHL(s))
             ELSE IF r = 7 THEN s.d ELSE Reg(s, r)
    IN  Arith(s, U16(U16(s.a - v) - getCarry(s)))

\* case 0xa0 .. 0xa7: ANA r (ANA M reads s.memory[s.getCarry()], s.pc += 2)
ANA(s, r) ==
    IF r = 6
    THEN LET s1 == [s EXCEPT !.a = BitAnd(s.a, MemRead(s.memory, getCarry(s)))]
         IN  doLogicFlags(IncPc(s1, 2))
    ELSE doLogicFlags([s EXCEPT !.a = BitAnd(s.a, Reg(s, r))])

\* case 0xa8 .. 0xaf: XRA r (XRA M reads s.memory[s.getAddr()], s.pc += 2)
XRA(s, r) ==
    IF r = 6
    THEN LET s1 == [s EXCEPT !.a = BitXor(s.a, MemRead(s.memory, getAddr(s)))]
         IN  doLogicFlags(IncPc(s1, 2))
    ELSE doLogicFlags([s EXCEPT !.a = BitXor(s.a, Reg(s, r))])

\* case 0xb0 .. 0xb7: ORA r (ORA M reads s.memory[s.getAddr()], s.pc += 2)
ORA(s, r) ==
    IF r = 6
    THEN LET s1 == [s EXCEPT !.a = BitOr(s.a, MemRead(s.memory, getAddr(s)))]
         IN  doLogicFlags(IncPc(s1, 2))
    ELSE doLogicFlags([s EXCEPT !.a = BitOr(s.a, Reg(s, r))])

\* case 0xb8 .. 0xbf: CMP r (CMP M reads s.memory[s.getAddr()], s.pc += 2)
CMP(s, r) ==
    IF r = 6
    THEN IncPc(doArithFlags(s, U16(s.a - MemRead(s.memory, getAddr(s)))), 2)
    ELSE doArithFlags(s, U16(s.a - Reg(s, r)))

Exec40toBF(s, opcode) ==
    LET r == opcode % 8
    IN  CASE opcode < \h80 -> MOV(s, (opcode - \h40) \div 8, r)
          [] opcode \in \h80 .. \h87 -> ADD(s, r)
          [] opcode \in \h88 .. \h8F -> ADC(s, r)
          [] opcode \in \h90 .. \h97 -> SUB(s, r)
          [] opcode \in \h98 .. \h9F -> SBB(s, r)
          [] opcode \in \hA0 .. \hA7 -> ANA(s, r)
          [] opcode \in \hA8 .. \hAF -> XRA(s, r)
          [] opcode \in \hB0 .. \hB7 -> ORA(s, r)
          [] opcode \in \hB8 .. \hBF -> CMP(s, r)

\* case 0xc1, 0xd1, 0xe1: POP B / D / H:  s.high, s.low = s.pop()
POP(s, high, low) ==
    LET r == pop(s)
    IN  SetReg(SetReg(r.s, high, r.high), low, r.low)

\* case 0xc5, 0xd5, 0xe5: PUSH B / D / H
PUSH(s, high, low) == push(s, Reg(s, high), Reg(s, low))

\* the conditional jumps: taken, s.pc = s.getAddr(); else s.pc += skip
Jcc(s, taken, skip) ==
    IF taken THEN [s EXCEPT !.pc = getAddr(s)] ELSE IncPc(s, skip)

\* case 0xf1: POP PSW
POPPSW(s) ==
    LET r == pop(s)
        low == r.low
    IN  [r.s EXCEPT !.a = r.high,
                    !.cond.cy = (BitAnd(low, \h01) = \h01),
                    !.cond.pad1 = (BitAnd(low, \h02) = \h02),
                    !.cond.p = (BitAnd(low, \h04) = \h04),
                    !.cond.pad2 = (BitAnd(low, \h08) = \h08),
                    !.cond.ac = (BitAnd(low, \h10) = \h10),
                    !.cond.pad3 = (BitAnd(low, \h20) = \h20),
                    !.cond.z = (BitAnd(low, \h40) = \h40),
                    !.cond.s = (BitAnd(low, \h80) = \h80)]

\* mutant of PackFields: the padding fields take no bit, as if Conditions
\* held the five flags only
RECURSIVE PackFieldsNoPads(_, _, _, _)
PackFieldsNoPads(cond, i, psw, flag) ==
    IF i > Len(CondFields) THEN psw
    ELSE IF CondFields[i] \in {"pad1", "pad2", "pad3"}
    THEN PackFieldsNoPads(cond, i + 1, psw, flag)
    ELSE PackFieldsNoPads(cond, i + 1,
                          IF cond[CondFields[i]] THEN BitOr(psw, flag) ELSE psw,
                          U8(flag * 2))

\* case 0xf5: the loop over the fields of s.cond: psw and flag after i fields
RECURSIVE PackFields(_, _, _, _)
PackFields(cond, i, psw, flag) ==
    IF i > Len(CondFields) THEN psw
    ELSE PackFields(cond, i + 1,
                    IF cond[CondFields[i]] THEN BitOr(psw, flag) ELSE psw,
                    U8(flag * 2))

\* case 0xf5: PUSH PSW
PUSHPSW(s) == push(s, s.a, PackFields(s.cond, 1, 0, 1))

ExecC0toFF(s, opcode) ==
    CASE opcode = \hC1 -> POP(s, 0, 1)                             \* POP B
      [] opcode = \hC2 -> Jcc(s, ~s.cond.z, 2)                     \* JNZ adr
      [] opcode = \hC3 -> [s EXCEPT !.pc = getAddr(s)]             \* JMP adr
      [] opcode = \hC5 -> PUSH(s, 0, 1)                            \* PUSH B
      [] opcode = \hC6 ->                                          \* 0xc6 (ADI)
            LET s1 == IncPc(s, 1)
            IN  Arith(s1, U16(s1.a + MemRead(s1.memory, s1.pc)))
      [] opcode = \hCA -> Jcc(s, s.cond.z, 2)                      \* JZ adr
      [] opcode = \hD1 -> POP(s, 2, 3)                             \* POP D
      [] opcode = \hD2 -> Jcc(s, ~s.cond.cy, 2)                    \* JNC adr
      [] opcode = \hD5 -> PUSH(s, 2, 3)                            \* PUSH D
      [] opcode = \hDA -> Jcc(s, s.cond.cy, 2)                     \* JC adr
      [] opcode = \hE1 -> POP(s, 4, 5)                             \* POP H
      [] opcode = \hE2 -> Jcc(s, ~s.cond.p, 1)                     \* JPO adr
      [] opcode = \hE5 -> PUSH(s, 4, 5)                            \* PUSH H
      [] opcode = \hEA -> Jcc(s, s.cond.p, 2)                      \* JPE adr
      [] opcode = \hF1 -> POPPSW(s)                                \* POP PSW
      [] opcode = \hF2 -> Jcc(s, ~s.cond.s, 2)                     \* JP adr
      [] opcode = \hF5 -> PUSHPSW(s)                               \* PUSH PSW
      [] opcode = \hFA -> Jcc(s, s.cond.s, 2)                      \* JM adr

\* the opcodes whose case (or the default) calls s.unimplemented()
Unimplemented ==
    {\h08, \h10, \h18, \h20, \h27, \h28, \h30, \h38}
    \cup {\h2E, \h3E}
    \cup ((\hC0 .. \hFF) \ {\hC1, \hC2, \hC3, \hC5, \hC6, \hCA, \hD1, \hD2, \hD5, \hDA,
                          \hE1, \hE2, \hE5, \hEA, \hF1, \hF2, \hF5, \hFA})

HLT == \h76

\* mutant of HALT: the case breaks out of the switch and Emulate returns
HALTBreaks(s) == [status |-> "RUNNING", code |-> NoExit]

\* case 0x76: os.Exit(0)
HALT(s) == [status |-> "HALTED", code |-> 0]

\* the switch of Emulate, for an opcode that returns from it
Exec(s, opcode) ==
    IF opcode < \h40 THEN Exec00to3F(s, opcode)
    ELSE IF opcode < \hC0 THEN Exec40toBF(s, opcode)
    ELSE ExecC0toFF(s, opcode)

(***************************************************************************)
(* The ROM images the model loads.  An image is either a bare program, run *)
(* from the zero State, or a program under test behind a prologue that     *)
(* loads the registers, the flags and the stack pointer from data bytes    *)
(* of the image:                                                           *)
(*     LXI SP,data; POP PSW; POP B; POP D; POP H; LXI SP,sp; test; HLT     *)
(*     data: flags, a, c, b, e, d, l, h, m                                 *)
(* With hlm the pair H/L addresses the last data byte, m.                  *)
(***************************************************************************)
NumSamples == 6
MaxSteps == 12
MaxHist == 2

SampleList == <<\h00, \h01, \h7F, \h80, \hFF, \h0F, \hF0, \h55, \hAA>>

Sample(i) == IF i <= Len(SampleList) THEN SampleList[i] ELSE (i * 37) % Byte

Samples == {Sample(i) : i \in 1 .. NumSamples}

Prologue(data, sp) ==
    <<\h31, data % 256, data \div 256, \hF1, \hC1, \hD1, \hE1,
      \h31, sp % 256, sp \div 256>>

PrologueLen == Len(Prologue(0, 0))

Image(test, cfg) ==
    LET data == PrologueLen + Len(test) + 1
        m == data + 8
        hh == IF cfg.hlm THEN m \div 256 ELSE cfg.h
        ll == IF cfg.hlm THEN m % 256 ELSE cfg.l
    IN  Prologue(data, cfg.sp)
        \o test \o <<HLT>>
        \o <<cfg.f, cfg.a, cfg.c, cfg.b, cfg.e, cfg.d, ll, hh, cfg.m>>

\* every register the operand value v, the accumulator a, the flag byte f
Cfg(a, v, f, sp, hlm) ==
    [f |-> f, a |-> a, b |-> v, c |-> v, d |-> v, e |-> v, h |-> v, l |-> v,
     m |-> v, sp |-> sp, hlm |-> hlm]

\* distinct registers
CfgMixed(f, sp, hlm) ==
    [f |-> f, a |-> \h12, b |-> \h34, c |-> \h56, d |-> \h78, e |-> \h9A,
     h |-> \hBC, l |-> \hDE, m |-> \hF0, sp |-> sp, hlm |-> hlm]

OperandPairs == {<<\h00, \h00>>, <<\h05, \h00>>, <<\h18, \h00>>}

StackSamples == {\h0000, \h0001, \h0002, \h000D, \h0100, \hFFFF}

AluOpcodes == (\h80 .. \hBF) \cup {\hC6}

\* the bare programs: the empty image, the two of the specification's
\* end-to-end examples, and every opcode with its operand bytes
BareImages ==
    {<<>>, <<\h3E, \h05, \h3C, HLT>>, <<\hFF>>}
    \cup {<<op, xy[1], xy[2], HLT>> : op \in \h00 .. \hFF, xy \in OperandPairs}
    \cup {<<\hAF, op, xy[1], xy[2], HLT>> : op \in {\hC2, \hCA, \hE2, \hEA, \hF2, \hFA},
                                            xy \in OperandPairs}

\* every opcode, from mixed registers, all flags clear and all flags set
OpcodeImages ==
    {Image(<<op, xy[1], xy[2]>>, CfgMixed(f, \h0100, hlm)) :
        op \in \h00 .. \hFF, xy \in OperandPairs, f \in {\h00, \hFF}, hlm \in BOOLEAN}

\* the accumulator arithmetic and logic, over the sample bytes
AluImages ==
    {Image(<<op, v>>, Cfg(a, v, f, \h0100, op % 8 = 6)) :
        op \in AluOpcodes, a \in Samples, v \in Samples, f \in {0, 1}}

\* PUSH then POP of one pair, over the stack pointers
StackImages ==
    {Image(<<op, op - 4>>, CfgMixed(f, sp, FALSE)) :
        op \in {\hC5, \hD5, \hE5, \hF5}, sp \in StackSamples, f \in {\h02, \hD7}}
    \cup {Image(<<\hF5, \hF1>>, Cfg(a, 0, f, \h0100, FALSE)) :
        a \in Samples, f \in \h00 .. \hFF}

\* INR then DCR, and DCR then INR, of each register and of the cell at HL,
\* over the sample bytes
IncDecImages ==
    {Image(<<\h04 + 8 * r + k, \h05 + 8 * r - k>>, Cfg(v, v, 0, \h0100, r = 6)) :
        r \in 0 .. 7, v \in Samples, k \in {0, 1}}

\* ORA A over every accumulator byte: the result is the byte itself
ParityImages ==
    {Image(<<\hB7>>, Cfg(a, 0, 0, \h0100, FALSE)) : a \in \h00 .. \hFF}

\* the ends of the address space.  A program that stores opcode op at
\* address at (0xFFFE or 0xFFFF) with SHLD and jumps to the byte before it,
\* so that the operand of op is fetched across 0xFFFF; LHLD and SHLD of
\* address 0xFFFF; POP of each pair with sp = 0xFFFF
WrapImages ==
    {<<\h21, op, \h5A, \h22, at % 256, at \div 256,
       \hC3, (at - 1) % 256, (at - 1) \div 256, HLT>> :
        op \in {\h01, \h11, \h21, \h22, \h2A, \h31, \h3A},
        at \in {\hFFFE, \hFFFF}}
    \cup {<<\h2A, \hFF, \hFF, HLT>>}
    \cup {Image(<<\h22, \hFF, \hFF>>, CfgMixed(\h00, \h0100, FALSE))}
    \cup {Image(<<op>>, CfgMixed(\h00, \hFFFF, FALSE)) : op \in {\hC1, \hD1, \hE1, \hF1}}

\* INR and DCR of each register and of the cell at HL, at the two wraps,
\* with CY and AC set
IncDecFlagImages ==
    {Image(<<\h04 + 8 * r + k>>, Cfg(v, v, \h11, \h0100, r = 6)) :
        r \in 0 .. 7, v \in {\h00, \hFF}, k \in {0, 1}}

Images ==
    BareImages \cup OpcodeImages \cup AluImages \cup StackImages
    \cup IncDecImages \cup ParityImages \cup WrapImages \cup IncDecFlagImages

(***************************************************************************)
(* main and Emulate                                                        *)
(***************************************************************************)
Init ==
    /\ d = <<>>
    /\ state = NewState
    /\ status = "STARTUP"
    /\ exitCode = NoExit
    /\ trace = <<>>
    /\ unimpl = NoOpcode
    /\ hist = <<>>
    /\ steps = 0

\* main: os.Open or ioutil.ReadAll fails: os.Exit(1)
ReadError ==
    /\ status = "STARTUP"
    /\ status' = "IOERROR"
    /\ exitCode' = 1
    /\ UNCHANGED <<d, state, trace, unimpl, hist, steps>>

\* mutant of Load: the length of the file is not looked at
LoadAcceptsEmpty ==
    /\ status = "STARTUP"
    /\ \E img \in Images :
          /\ d' = img
          /\ state' = [NewState EXCEPT !.memory = CopyImage(img)]
          /\ status' = "RUNNING"
          /\ UNCHANGED exitCode
    /\ UNCHANGED <<trace, unimpl, hist, steps>>

\* main: the file is read; an empty one is refused, another is copied into
\* the memory of a new State and the loop starts
Load ==
    /\ status = "STARTUP"
    /\ \E img \in Images :
          /\ d' = img
          /\ IF Len(img) = 0
             THEN /\ status' = "REJECTED"
                  /\ exitCode' = 1
                  /\ UNCHANGED state
             ELSE /\ state' = [NewState EXCEPT !.memory = CopyImage(img)]
                  /\ status' = "RUNNING"
                  /\ UNCHANGED exitCode
    /\ UNCHANGED <<trace, unimpl, hist, steps>>

Remember(h, s) ==
    IF Len(h) < MaxHist THEN Append(h, s) ELSE Append(Tail(h), s)

\* one turn of the loop of main: state.Emulate()
Emulate ==
    /\ status = "RUNNING"
    /\ steps < MaxSteps
    /\ LET opcode == MemRead(state.memory, state.pc)
       IN  /\ trace' = <<state.pc, opcode>>
           /\ IF opcode = HLT
              THEN /\ status' = HALT(state).status
                   /\ exitCode' = HALT(state).code
                   /\ UNCHANGED <<state, unimpl>>
              ELSE IF opcode \in Unimplemented
              THEN /\ status' = unimplemented(state).status
                   /\ exitCode' = unimplemented(state).code
                   /\ unimpl' = unimplemented(state).msg
                   /\ UNCHANGED state
              ELSE /\ state' = IncPc(Exec(state, opcode), 1)
                   /\ UNCHANGED <<status, exitCode, unimpl>>
    /\ hist' = Remember(hist, state)
    /\ steps' = steps + 1
    /\ UNCHANGED d

Next == ReadError \/ Load \/ Emulate

Spec == Init /\ [][Next]_vars

(***************************************************************************)
(* The last calls of Emulate, for the properties below.                    *)
(***************************************************************************)
Stepped == Len(hist) >= 1

\* the State at the latest call of Emulate, and the opcode it fetched
Prev == hist[Len(hist)]
PrevOp == MemRead(Prev.memory, Prev.pc)

SteppedTwice == Len(hist) >= 2

\* the State at the call before the latest, and the opcode it fetched
Prev2 == hist[Len(hist) - 1]
Prev2Op == MemRead(Prev2.memory, Prev2.pc)

\* the 16-bit operand of the instruction at s.pc, low byte first
Operand16(s) ==
    MemRead(s.memory, (s.pc + 1) % 65536)
    + 256 * MemRead(s.memory, (s.pc + 2) % 65536)

\* the memory cell the pair H/L addresses
CellHL(s) == MemRead(s.memory, 256 * s.h + s.l)

Flags5(s) == <<s.cond.cy, s.cond.p, s.cond.ac, s.cond.z, s.cond.s>>

\* bit i of x
Bit(x, i) == (x \div (2 ^ i)) % 2 = 1

\* x has an even number of set bits among its low 8
EvenBits(x) == Cardinality({i \in 0 .. 7 : Bit(x, i)}) % 2 = 0

\* the value of the 8-bit operand numbered r (0 B, 1 C, 2 D, 3 E, 4 H, 5 L,
\* 6 M: the cell at HL, 7 A)
Loc(s, r) ==
    IF r = 6 THEN CellHL(s)
    ELSE <<s.b, s.c, s.d, s.e, s.h, s.l, 0, s.a>>[r + 1]

\* the value of the 16-bit pair numbered k (0 BC, 1 DE, 2 HL, 3 SP)
PairValue(s, k) ==
    <<256 * s.b + s.c, 256 * s.d + s.e, 256 * s.h + s.l, s.sp>>[k + 1]

\* s with the pair numbered k holding v: high byte in the high register
WithPair(s, k, v) ==
    CASE k = 0 -> [s EXCEPT !.b = v \div 256, !.c = v % 256]
      [] k = 1 -> [s EXCEPT !.d = v \div 256, !.e = v % 256]
      [] k = 2 -> [s EXCEPT !.h = v \div 256, !.l = v % 256]
      [] k = 3 -> [s EXCEPT !.sp = v]

(***************************************************************************)
(* C1.  The image [0x3E, 0x05, 0x3C, 0x76] (MVI A,5; INR A; HLT) never     *)
(* enters FAULTED, and when it has stopped it is HALTED with exit status 0 *)
(* and accumulator 6.                                                      *)
(***************************************************************************)
C1_HelloImage == <<\h3E, \h05, \h3C, \h76>>

C1_HelloHalts ==
    d = C1_HelloImage =>
        /\ status # "FAULTED"
        /\ status = "HALTED" => (exitCode = 0 /\ state.a = 6)

(***************************************************************************)
(* C2.  A step whose opcode has no defined semantics faults: the process   *)
(* ends FAULTED with a non-zero status, the opcode is printed together     *)
(* with the pc it was fetched at, and the State is left as it was.  The    *)
(* image [0xFF] faults reporting opcode 0xFF at pc 0.                      *)
(***************************************************************************)
\* the opcodes the claim names: 0xFF, 0x08, DAA, RIM, SIM, and the calls,
\* returns and restarts
C2_Named ==
    {\hFF, \h08, \h27, \h20, \h30}
    \cup {\hCD, \hC4, \hCC, \hD4, \hDC, \hE4, \hEC, \hF4, \hFC}
    \cup {\hC9, \hC0, \hC8, \hD0, \hD8, \hE0, \hE8, \hF0, \hF8}
    \cup {\hC7, \hCF, \hD7, \hDF, \hE7, \hEF, \hF7}

C2_UnimplementedFaults ==
    /\ (Stepped /\ PrevOp \in (Unimplemented \cup C2_Named)) =>
          /\ status = "FAULTED"
          /\ exitCode \notin {NoExit, 0}
          /\ unimpl = PrevOp
          /\ trace = <<Prev.pc, PrevOp>>
          /\ state = Prev
    /\ (d = <<\hFF>> /\ steps >= 1) =>
          /\ status = "FAULTED"
          /\ unimpl = \hFF
          /\ trace = <<0, \hFF>>

C2_Witness ==
    /\ Stepped
    /\ PrevOp = \h27
    /\ status = "FAULTED"
    /\ unimpl = \h27
    /\ state.a = \h12
    /\ state.pc = PrologueLen

(***************************************************************************)
(* C3.  Once the loop runs the engine is RUNNING, HALTED or FAULTED: a     *)
(* step on HLT ends HALTED with status 0, a step on an unimplemented       *)
(* opcode ends FAULTED, every other step stays RUNNING; from HALTED and    *)
(* FAULTED no step is taken and nothing changes.                           *)
(***************************************************************************)
C3_Transitions ==
    Stepped =>
        /\ PrevOp = \h76 => (status = "HALTED" /\ exitCode = 0)
        /\ (PrevOp # \h76 /\ PrevOp \in Unimplemented) =>
              (status = "FAULTED" /\ exitCode # 0)
        /\ (PrevOp # \h76 /\ PrevOp \notin Unimplemented) =>
              (status = "RUNNING" /\ exitCode = NoExit)

C3_StateMachine ==
    /\ [](C3_Transitions)
    /\ [][status \notin {"HALTED", "FAULTED"}]_vars

C3_Witness ==
    /\ SteppedTwice
    /\ status = "HALTED"
    /\ exitCode = 0
    /\ PrevOp = \h76
    /\ Prev2Op = \h00
    /\ state.a = \h13

(***************************************************************************)
(* The jumps, as the 8080 defines them.                                    *)
(***************************************************************************)
JMPop == \hC3

\* JNZ, JZ, JNC, JC, JPO, JPE, JP, JM
CondJumps == {\hC2, \hCA, \hD2, \hDA, \hE2, \hEA, \hF2, \hFA}

\* the flag of conditional jump op has the polarity the jump asks for
Polarity(s, op) ==
    CASE op = \hC2 -> ~s.cond.z
      [] op = \hCA -> s.cond.z
      [] op = \hD2 -> ~s.cond.cy
      [] op = \hDA -> s.cond.cy
      [] op = \hE2 -> ~s.cond.p
      [] op = \hEA -> s.cond.p
      [] op = \hF2 -> ~s.cond.s
      [] op = \hFA -> s.cond.s

(***************************************************************************)
(* C4.  After JMP, and after a conditional jump whose condition holds, pc  *)
(* is the 16-bit little-endian operand itself: the advance that closes     *)
(* other instructions is skipped.                                          *)
(***************************************************************************)
C4_JumpLandsOnOperand ==
    (Stepped /\ (PrevOp = JMPop \/ (PrevOp \in CondJumps /\ Polarity(Prev, PrevOp)))) =>
        state.pc = Operand16(Prev)

(***************************************************************************)
(* C5.  A conditional jump whose flag has the required polarity sets pc    *)
(* from its operand (to which byte is C4's matter); one whose flag has not *)
(* leaves pc 3 further (mod 65536) and nothing else changed.               *)
(***************************************************************************)
C5_ConditionalJumps ==
    (Stepped /\ PrevOp \in CondJumps) =>
        IF Polarity(Prev, PrevOp)
        THEN state.pc \in {Operand16(Prev), (Operand16(Prev) + 1) % 65536}
        ELSE state = [Prev EXCEPT !.pc = (Prev.pc + 3) % 65536]

(***************************************************************************)
(* C6.  After an instruction that is no jump, pc is the old pc plus the    *)
(* length of the instruction (mod 65536): 2 for MVI and ADI, 3 for LXI,    *)
(* STA, LDA, SHLD and LHLD, 1 for every other.                             *)
(***************************************************************************)
C6_Length(op) ==
    IF op \in {\h06, \h0E, \h16, \h1E, \h26, \h2E, \h36, \h3E, \hC6} THEN 2
    ELSE IF op \in {\h01, \h11, \h21, \h31, \h32, \h3A, \h22, \h2A} THEN 3
    ELSE 1

C6_PcAdvance ==
    (Stepped /\ status = "RUNNING" /\ PrevOp \notin CondJumps \cup {JMPop}) =>
        state.pc = (Prev.pc + C6_Length(PrevOp)) % 65536

(***************************************************************************)
(* C7.  CMP with any operand leaves the accumulator as it was and sets Z,  *)
(* S, P and CY as SUB with the same operand would.                         *)
(***************************************************************************)
C7_CmpLikeSub ==
    (Stepped /\ PrevOp \in \hB8 .. \hBF) =>
        LET sub == SUB(Prev, PrevOp % 8)
        IN  /\ state.a = Prev.a
            /\ state.cond.z = sub.cond.z
            /\ state.cond.s = sub.cond.s
            /\ state.cond.p = sub.cond.p
            /\ state.cond.cy = sub.cond.cy

(***************************************************************************)
(* C8.  ADD with a register, with the memory cell at HL, or with the       *)
(* immediate of ADI leaves the accumulator (a + b) mod 256 and CY set iff  *)
(* a + b > 0xFF.                                                           *)
(***************************************************************************)
AddOps == (\h80 .. \h87) \cup {\hC6}

\* the operand b of the ADD or ADI at s.pc
C8_Operand(s, op) ==
    IF op = \hC6 THEN MemRead(s.memory, (s.pc + 1) % 65536)
    ELSE IF op % 8 = 6 THEN CellHL(s)
    ELSE <<s.b, s.c, s.d, s.e, s.h, s.l, 0, s.a>>[(op % 8) + 1]

C8_AddCarry ==
    (Stepped /\ PrevOp \in AddOps) =>
        LET sum == Prev.a + C8_Operand(Prev, PrevOp)
        IN  /\ state.a = sum % 256
            /\ state.cond.cy = (sum > 255)

C8_Witness ==
    /\ Stepped
    /\ PrevOp = \h86
    /\ Prev.a = \hFF
    /\ CellHL(Prev) = \h80
    /\ state.a = \h7F
    /\ state.cond.cy

(***************************************************************************)
(* C9.  PUSH of BC, DE or HL followed at once by POP of the same pair      *)
(* leaves both registers of the pair and the stack pointer as they were    *)
(* before the PUSH, also where the stack wraps (sp = 0, sp = 1).           *)
(***************************************************************************)
\* PUSH B, PUSH D, PUSH H; the POP of the same pair is the opcode - 4
PushOps == {\hC5, \hD5, \hE5}

C9_PushPop ==
    (SteppedTwice /\ Prev2Op \in PushOps /\ PrevOp = Prev2Op - 4) =>
        /\ PrevOp = \hC1 => <<state.b, state.c>> = <<Prev2.b, Prev2.c>>
        /\ PrevOp = \hD1 => <<state.d, state.e>> = <<Prev2.d, Prev2.e>>
        /\ PrevOp = \hE1 => <<state.h, state.l>> = <<Prev2.h, Prev2.l>>
        /\ state.sp = Prev2.sp

C9_Witness ==
    /\ SteppedTwice
    /\ Prev2Op = \hE5
    /\ PrevOp = \hE1
    /\ Prev2.sp = 1
    /\ state.sp = 1
    /\ <<state.h, state.l>> = <<\hBC, \hDE>>
    /\ MemRead(state.memory, \h0000) = \hBC
    /\ MemRead(state.memory, \hFFFF) = \hDE

(***************************************************************************)
(* C10.  PUSH PSW followed at once by POP PSW leaves the accumulator, the  *)
(* five flags CY, P, AC, Z, S and the stack pointer as they were before    *)
(* the PUSH.                                                               *)
(***************************************************************************)
C10_PswRoundTrip ==
    (SteppedTwice /\ Prev2Op = \hF5 /\ PrevOp = \hF1) =>
        /\ state.a = Prev2.a
        /\ Flags5(state) = Flags5(Prev2)
        /\ state.sp = Prev2.sp

C10_Witness ==
    /\ SteppedTwice
    /\ Prev2Op = \hF5
    /\ PrevOp = \hF1
    /\ state.a = \h80
    /\ Flags5(Prev2) = <<TRUE, FALSE, TRUE, FALSE, TRUE>>
    /\ Flags5(state) = <<TRUE, FALSE, TRUE, FALSE, TRUE>>

(***************************************************************************)
(* C11.  The flag byte PUSH PSW writes, the byte at the new stack pointer,  *)
(* has bit 0 = CY, bit 2 = P, bit 4 = AC, bit 6 = Z, bit 7 = S of the flags *)
(* before the step, bit 1 set and bits 3 and 5 clear, whatever byte an      *)
(* earlier POP PSW has read.                                                *)
(***************************************************************************)
C11_PswLayout ==
    (Stepped /\ PrevOp = \hF5) =>
        LET psw == MemRead(state.memory, state.sp)
        IN  /\ Bit(psw, 0) = Prev.cond.cy
            /\ Bit(psw, 1)
            /\ Bit(psw, 2) = Prev.cond.p
            /\ ~Bit(psw, 3)
            /\ Bit(psw, 4) = Prev.cond.ac
            /\ ~Bit(psw, 5)
            /\ Bit(psw, 6) = Prev.cond.z
            /\ Bit(psw, 7) = Prev.cond.s

(***************************************************************************)
(* C12.  After an instruction that ends in setBC(v), setDE(v) or setHL(v)   *)
(* (DCX B, DCX D, INX H, DCX H, DAD H, DAD SP), the high register of the    *)
(* pair holds v >> 8, the low register holds v & 0xFF, and the getter of    *)
(* the pair returns v.                                                      *)
(***************************************************************************)
C12_SetPairOps == {\h0B, \h1B, \h23, \h29, \h2B, \h39}

\* the 16-bit value the case of op hands to the setter
C12_Arg(s, op) ==
    CASE op = \h0B -> (getBC(s) + 65535) % 65536
      [] op = \h1B -> (getDE(s) + 65535) % 65536
      [] op = \h23 -> (getHL(s) + 1) % 65536
      [] op = \h29 -> (2 * getHL(s)) % 65536
      [] op = \h2B -> (getHL(s) + 65535) % 65536
      [] op = \h39 -> (getHL(s) + s.sp) % 65536

C12_SetPair ==
    (Stepped /\ PrevOp \in C12_SetPairOps) =>
        LET v == C12_Arg(Prev, PrevOp)
        IN  CASE PrevOp = \h0B ->
                    /\ state.b = v \div 256
                    /\ state.c = v % 256
                    /\ getBC(state) = v
              [] PrevOp = \h1B ->
                    /\ state.d = v \div 256
                    /\ state.e = v % 256
                    /\ getDE(state) = v
              [] OTHER ->
                    /\ state.h = v \div 256
                    /\ state.l = v % 256
                    /\ getHL(state) = v

(***************************************************************************)
(* C13.  INX of BC, DE, HL or SP leaves the pair (value + 1) mod 65536 and  *)
(* DCX leaves it (value - 1) mod 65536; no flag, no memory cell and no      *)
(* register outside the pair changes.                                       *)
(***************************************************************************)
InxOps == {\h03, \h13, \h23, \h33}

DcxOps == {\h0B, \h1B, \h2B, \h3B}

C13_InxDcx ==
    (Stepped /\ PrevOp \in InxOps \cup DcxOps) =>
        LET k == PrevOp \div 16
            delta == IF PrevOp \in InxOps THEN 1 ELSE 65535
            v == (PairValue(Prev, k) + delta) % 65536
        IN  [state EXCEPT !.pc = Prev.pc] = WithPair(Prev, k, v)

(***************************************************************************)
(* C14.  DAD of BC, DE, HL or SP leaves HL = (HL + operand) mod 65536 and   *)
(* CY set iff HL + operand > 0xFFFF; Z, S, P, AC and the registers A, B,    *)
(* C, D, E and SP are as before.                                            *)
(***************************************************************************)
DadOps == {\h09, \h19, \h29, \h39}

C14_Dad ==
    (Stepped /\ PrevOp \in DadOps) =>
        LET sum == PairValue(Prev, 2) + PairValue(Prev, PrevOp \div 16)
        IN  /\ PairValue(state, 2) = sum % 65536
            /\ state.cond.cy = (sum > 65535)
            /\ <<state.cond.z, state.cond.s, state.cond.p, state.cond.ac>>
                 = <<Prev.cond.z, Prev.cond.s, Prev.cond.p, Prev.cond.ac>>
            /\ <<state.a, state.b, state.c, state.d, state.e, state.sp>>
                 = <<Prev.a, Prev.b, Prev.c, Prev.d, Prev.e, Prev.sp>>

(***************************************************************************)
(* C15.  After ANA, XRA or ORA with any operand CY is false, Z holds iff    *)
(* the new accumulator is 0, S iff its bit 7 is set, and P iff it has an    *)
(* even number of set bits.                                                 *)
(***************************************************************************)
LogicOps == \hA0 .. \hB7

C15_LogicFlags ==
    (Stepped /\ PrevOp \in LogicOps) =>
        /\ ~state.cond.cy
        /\ state.cond.z = (state.a = 0)
        /\ state.cond.s = Bit(state.a, 7)
        /\ state.cond.p = EvenBits(state.a)

(***************************************************************************)
(* C16.  The rotates move the accumulator by one bit.  RLC: bit 7 enters    *)
(* bit 0 and becomes CY.  RRC: bit 0 enters bit 7 and becomes CY.  RAL: the *)
(* old CY enters bit 0 and bit 7 becomes CY.  RAR: the old CY enters bit 7  *)
(* and bit 0 becomes CY.  Z, S, P and AC are as before.                     *)
(***************************************************************************)
RotateOps == {\h07, \h0F, \h17, \h1F}

C16_Rotates ==
    (Stepped /\ PrevOp \in RotateOps) =>
        LET a == Prev.a
            cy == IF Prev.cond.cy THEN 1 ELSE 0
            bit0 == a % 2
            bit7 == a \div 128
        IN  /\ PrevOp = \h07 =>
                  (state.a = ((2 * a) % 256) + bit7 /\ state.cond.cy = (bit7 = 1))
            /\ PrevOp = \h0F =>
                  (state.a = (a \div 2) + 128 * bit0 /\ state.cond.cy = (bit0 = 1))
            /\ PrevOp = \h17 =>
                  (state.a = ((2 * a) % 256) + cy /\ state.cond.cy = (bit7 = 1))
            /\ PrevOp = \h1F =>
                  (state.a = (a \div 2) + 128 * cy /\ state.cond.cy = (bit0 = 1))
            /\ <<state.cond.z, state.cond.s, state.cond.p, state.cond.ac>>
                 = <<Prev.cond.z, Prev.cond.s, Prev.cond.p, Prev.cond.ac>>

(***************************************************************************)
(* C17.  ADC r leaves a = (a + r + CY) mod 256 with CY set iff the sum      *)
(* exceeds 0xFF, and SBB r leaves a = (a - r - CY) mod 256 with CY set iff  *)
(* the difference is negative, where r is the operand the opcode names:     *)
(* B, C, D, E, H, L, the cell at HL, or A itself.                           *)
(***************************************************************************)
AdcOps == \h88 .. \h8F

SbbOps == \h98 .. \h9F

C17_AdcSbb ==
    (Stepped /\ PrevOp \in AdcOps \cup SbbOps) =>
        LET r == Loc(Prev, PrevOp % 8)
            cy == IF Prev.cond.cy THEN 1 ELSE 0
            result == IF PrevOp \in AdcOps THEN Prev.a + r + cy
                      ELSE Prev.a - r - cy
        IN  /\ state.a = result % 256
            /\ state.cond.cy = (result \notin 0 .. 255)

(***************************************************************************)
(* C18.  The M operand is the memory cell at HL.  MOV r,M loads r from it;  *)
(* MOV M,r stores r to it and changes no other cell; neither changes a      *)
(* flag.  ANA M, XRA M, ORA M and ADD M combine the accumulator with it,    *)
(* and CMP M compares the accumulator with it.                              *)
(***************************************************************************)
\* MOV B,M  MOV C,M  MOV D,M  MOV E,M  MOV H,M  MOV L,M  MOV A,M
MovFromM == {\h46, \h4E, \h56, \h5E, \h66, \h6E, \h7E}

\* MOV M,B  MOV M,C  MOV M,D  MOV M,E  MOV M,H  MOV M,L  MOV M,A
MovToM == {\h70, \h71, \h72, \h73, \h74, \h75, \h77}

C18_OperandM ==
    Stepped =>
        LET hl == PairValue(Prev, 2)
            m == CellHL(Prev)
        IN  /\ PrevOp \in MovFromM =>
                  (Loc(state, (PrevOp - \h40) \div 8) = m /\ state.cond = Prev.cond)
            /\ PrevOp \in MovToM =>
                  /\ state.memory = MemWrite(Prev.memory, hl, Loc(Prev, PrevOp % 8))
                  /\ state.cond = Prev.cond
            /\ PrevOp = \hA6 => state.a = BitAnd(Prev.a, m)
            /\ PrevOp = \hAE => state.a = BitXor(Prev.a, m)
            /\ PrevOp = \hB6 => state.a = BitOr(Prev.a, m)
            /\ PrevOp = \h86 => state.a = (Prev.a + m) % 256
            /\ PrevOp = \hBE =>
                  (state.cond.z = (Prev.a = m) /\ state.cond.cy = (Prev.a < m))

(***************************************************************************)
(* C19.  INR and DCR of a register or of the cell at HL never fault.  INR   *)
(* of 0xFF leaves 0x00, DCR of 0x00 leaves 0xFF, and INR followed at once   *)
(* by DCR of the same location leaves the value it held before the INR.     *)
(***************************************************************************)
\* INR B, C, D, E, H, L, M, A; the DCR of the same location is the opcode + 1
InrOps == {\h04, \h0C, \h14, \h1C, \h24, \h2C, \h34, \h3C}

DcrOps == {\h05, \h0D, \h15, \h1D, \h25, \h2D, \h35, \h3D}

C19_IncDec ==
    /\ (Stepped /\ PrevOp \in InrOps \cup DcrOps) =>
          /\ status = "RUNNING"
          /\ (PrevOp \in InrOps /\ Loc(Prev, PrevOp \div 8) = \hFF) =>
                Loc(state, PrevOp \div 8) = \h00
          /\ (PrevOp \in DcrOps /\ Loc(Prev, PrevOp \div 8) = \h00) =>
                Loc(state, PrevOp \div 8) = \hFF
    /\ (SteppedTwice /\ Prev2Op \in InrOps /\ PrevOp = Prev2Op + 1) =>
          Loc(state, PrevOp \div 8) = Loc(Prev2, PrevOp \div 8)

C19_Witness ==
    /\ SteppedTwice
    /\ Prev2Op = \h34
    /\ PrevOp = \h35
    /\ CellHL(Prev2) = \hFF
    /\ CellHL(Prev) = \h00
    /\ CellHL(state) = \hFF
    /\ status = "RUNNING"

(***************************************************************************)
(* C20.  After an instruction that sets the parity flag from its result    *)
(* (INR, DCR, ADD, ADC, SUB, SBB, ANA, XRA, ORA, CMP, ADI), P holds iff the *)
(* low 8 bits of the result have an even number of set bits.               *)
(***************************************************************************)
ParityOps == InrOps \cup DcrOps \cup (\h80 .. \hBF) \cup {\hC6}

\* the result byte of the latest instruction: the location INR or DCR
\* changed, the difference CMP formed and dropped (of CMP M, with the cell
\* the operand bytes address), the new accumulator of every other
C20_Result ==
    IF PrevOp \in InrOps \cup DcrOps THEN Loc(state, PrevOp \div 8)
    ELSE IF PrevOp = \hBE
         THEN (Prev.a - MemRead(Prev.memory, Operand16(Prev))) % 256
    ELSE IF PrevOp \in \hB8 .. \hBF THEN (Prev.a - Loc(Prev, PrevOp % 8)) % 256
    ELSE state.a

C20_Parity ==
    (Stepped /\ PrevOp \in ParityOps) => state.cond.p = EvenBits(C20_Result)

C20_Witness ==
    /\ Stepped
    /\ PrevOp = \hB7
    /\ state.a = \hFE
    /\ C20_Result = \hFE
    /\ ~state.cond.p

(***************************************************************************)
(* C21.  pc and sp stay in 0 .. 65535 and every memory cell used has an     *)
(* address in 0 .. 65535; a step on an implemented opcode never faults.     *)
(* PUSH with sp 0 or 1 and POP with sp 0xFFFF wrap modulo 65536; the        *)
(* operand of an instruction at 0xFFFE or 0xFFFF is fetched from the cells  *)
(* that follow modulo 65536; SHLD and LHLD of address 0xFFFF use cell       *)
(* 0x0000 as their second byte.                                             *)
(***************************************************************************)
\* PUSH B, D, H, PSW and POP B, D, H, PSW
AllPushOps == {\hC5, \hD5, \hE5, \hF5}

AllPopOps == {\hC1, \hD1, \hE1, \hF1}

\* LXI B, D, H
LxiOps == {\h01, \h11, \h21}

\* the high register of the POP or PUSH op (A for PSW)
C21_High(s, op) == <<s.b, s.d, s.h, s.a>>[((op - \hC0) \div 16) + 1]

C21_Wraparound ==
    /\ state.pc \in 0 .. 65535
    /\ state.sp \in 0 .. 65535
    /\ DOMAIN state.memory \subseteq 0 .. 65535
    /\ Stepped =>
          LET adr == Operand16(Prev)
              edge == Prev.pc \in {\hFFFE, \hFFFF}
          IN  /\ (PrevOp # HLT /\ PrevOp \notin Unimplemented) => status = "RUNNING"
              /\ (PrevOp \in AllPushOps /\ Prev.sp \in {0, 1}) =>
                    /\ state.sp = Prev.sp + 65534
                    /\ MemRead(state.memory, (state.sp + 1) % 65536)
                         = C21_High(Prev, PrevOp)
              /\ (PrevOp \in AllPopOps /\ Prev.sp = \hFFFF) =>
                    /\ state.sp = 1
                    /\ C21_High(state, PrevOp) = MemRead(Prev.memory, \h0000)
              /\ (PrevOp \in LxiOps /\ edge) =>
                    PairValue(state, PrevOp \div 16) = adr
              /\ (PrevOp = \h31 /\ edge) => state.sp = adr
              /\ (PrevOp = \h3A /\ edge) => state.a = MemRead(Prev.memory, adr)
              /\ (PrevOp = \h22 /\ adr = \hFFFF) =>
                    /\ MemRead(state.memory, \hFFFF) = Prev.l
                    /\ MemRead(state.memory, \h0000) = Prev.h
              /\ (PrevOp = \h2A /\ adr = \hFFFF) =>
                    /\ state.l = MemRead(Prev.memory, \hFFFF)
                    /\ state.h = MemRead(Prev.memory, \h0000)

C21_Witness ==
    /\ Stepped
    /\ Prev.pc = \hFFFF
    /\ PrevOp = \h31
    /\ Operand16(Prev) = \h315A
    /\ state.sp = \h315A
    /\ state.pc = 2
    /\ status = "RUNNING"

(***************************************************************************)
(* C22.  An empty image is refused at startup: the load of it ends the      *)
(* process REJECTED with a non-zero status, and with an empty image the     *)
(* engine is never RUNNING, no call of Emulate is made and the State is     *)
(* never touched; from REJECTED nothing follows.                            *)
(***************************************************************************)
C22_NeverRuns ==
    /\ d = <<>> =>
          /\ status \in {"STARTUP", "IOERROR", "REJECTED"}
          /\ steps = 0
          /\ trace = <<>>
          /\ state = NewState
    /\ status = "REJECTED" => (d = <<>> /\ exitCode \notin {NoExit, 0})

C22_EmptyRejected ==
    /\ [](C22_NeverRuns)
    /\ [][(d' = <<>> /\ status' \notin {"STARTUP", "IOERROR"}) =>
             (status' = "REJECTED" /\ exitCode' # 0)]_vars
    /\ [][status # "REJECTED"]_vars

C22_Witness ==
    /\ status = "REJECTED"
    /\ d = <<>>
    /\ exitCode = 1
    /\ steps = 0
    /\ state = NewState

(***************************************************************************)
(* C23.  After ADD, ADC, SUB, SBB and ADI the accumulator is the low 8     *)
(* bits of the untruncated 16-bit result of the instruction, Z holds iff    *)
(* the accumulator is 0, S iff its bit 7 is set, P iff it has an even       *)
(* number of set bits, and CY iff the result has a bit above bit 7 set      *)
(* (after SUB b: iff a < b).                                                *)
(***************************************************************************)
ArithOps == (\h80 .. \h9F) \cup {\hC6}

\* the untruncated 16-bit result of the arithmetic instruction op at s.pc
C23_Result(s, op) ==
    LET v == C8_Operand(s, op)
        cy == IF s.cond.cy THEN 1 ELSE 0
    IN  CASE op \in AddOps -> s.a + v
          [] op \in \h88 .. \h8F -> s.a + v + cy
          [] op \in \h90 .. \h97 -> (s.a - v) % 65536
          [] op \in \h98 .. \h9F -> (s.a - v - cy) % 65536

C23_ArithFlags ==
    (Stepped /\ PrevOp \in ArithOps) =>
        LET result == C23_Result(Prev, PrevOp)
        IN  /\ state.a = result % 256
            /\ state.cond.z = (state.a = 0)
            /\ state.cond.s = Bit(state.a, 7)
            /\ state.cond.p = EvenBits(state.a)
            /\ state.cond.cy = (result \div 256 # 0)
            /\ PrevOp \in \h90 .. \h97 =>
                  state.cond.cy = (Prev.a < C8_Operand(Prev, PrevOp))

(***************************************************************************)
(* C24.  INR and DCR of a register or of the cell at HL set Z, S and P     *)
(* from the 8-bit result and leave CY, AC and the three padding bits as     *)
(* they were, also on the wraps 0xFF -> 0x00 and 0x00 -> 0xFF.              *)
(***************************************************************************)
C24_IncDecFlags ==
    (Stepped /\ PrevOp \in InrOps \cup DcrOps) =>
        LET result == Loc(state, PrevOp \div 8)
        IN  /\ state.cond.z = (result = 0)
            /\ state.cond.s = Bit(result, 7)
            /\ state.cond.p = EvenBits(result)
            /\ state.cond.cy = Prev.cond.cy
            /\ state.cond.ac = Prev.cond.ac
            /\ <<state.cond.pad1, state.cond.pad2, state.cond.pad3>>
                 = <<Prev.cond.pad1, Prev.cond.pad2, Prev.cond.pad3>>

C24_Witness ==
    /\ Stepped
    /\ PrevOp = \h3C
    /\ Prev.a = \hFF
    /\ state.a = \h00
    /\ Prev.cond.cy /\ Prev.cond.ac /\ ~Prev.cond.z
    /\ state.cond.cy /\ state.cond.ac /\ state.cond.z

(***************************************************************************)
(* C25.  A PUSH from stack pointer s leaves sp = (s - 2) mod 65536 with     *)
(* the low byte at memory[sp], the high byte at memory[sp + 1] and every    *)
(* other cell as it was.  A POP reads the low byte from memory[sp] and the  *)
(* high byte from memory[sp + 1], leaves sp = (sp + 2) mod 65536 and        *)
(* writes no cell.                                                          *)
(***************************************************************************)
\* the low register of the POP or PUSH op of BC, DE, HL
C25_Low(s, op) == <<s.c, s.e, s.l>>[((op - \hC0) \div 16) + 1]

C25_PushPopWord ==
    Stepped =>
        /\ PrevOp \in AllPushOps =>
              LET sp == (Prev.sp + 65534) % 65536
                  sp1 == (sp + 1) % 65536
              IN  /\ state.sp = sp
                  /\ MemRead(state.memory, sp1) = C21_High(Prev, PrevOp)
                  /\ PrevOp # \hF5 =>
                        MemRead(state.memory, sp) = C25_Low(Prev, PrevOp)
                  /\ \A x \in (DOMAIN state.memory \cup DOMAIN Prev.memory) \ {sp, sp1} :
                        MemRead(state.memory, x) = MemRead(Prev.memory, x)
        /\ PrevOp \in AllPopOps =>
              LET low == MemRead(Prev.memory, Prev.sp)
                  high == MemRead(Prev.memory, (Prev.sp + 1) % 65536)
              IN  /\ state.sp = (Prev.sp + 2) % 65536
                  /\ state.memory = Prev.memory
                  /\ C21_High(state, PrevOp) = high
                  /\ PrevOp # \hF1 => C25_Low(state, PrevOp) = low
                  /\ PrevOp = \hF1 =>
                        Flags5(state) = <<Bit(low, 0), Bit(low, 2), Bit(low, 4),
                                          Bit(low, 6), Bit(low, 7)>>

C25_Witness ==
    /\ Stepped
    /\ PrevOp = \hD5
    /\ Prev.sp = \h0100
    /\ state.sp = \h00FE
    /\ MemRead(state.memory, \h00FE) = \h9A
    /\ MemRead(state.memory, \h00FF) = \h78
    /\ Prev.d = \h78 /\ Prev.e = \h9A

(***************************************************************************)
(* C26.  MVI with destination B, C, D, E, H, L, M or A copies the byte      *)
(* after the opcode into the register, or into the cell at HL for M; LXI    *)
(* of BC, DE, HL or SP loads the pair from the two bytes after the opcode,  *)
(* low byte first.  None of them faults and none changes a flag.            *)
(***************************************************************************)
MviOps == {\h06, \h0E, \h16, \h1E, \h26, \h2E, \h36, \h3E}

AllLxiOps == {\h01, \h11, \h21, \h31}

C26_ImmediateLoads ==
    Stepped =>
        /\ PrevOp \in MviOps =>
              LET r == PrevOp \div 8
                  d8 == MemRead(Prev.memory, (Prev.pc + 1) % 65536)
              IN  /\ status = "RUNNING"
                  /\ state.cond = Prev.cond
                  /\ IF r = 6
                     THEN MemRead(state.memory, PairValue(Prev, 2)) = d8
                     ELSE Loc(state, r) = d8
        /\ PrevOp \in AllLxiOps =>
              /\ status = "RUNNING"
              /\ state.cond = Prev.cond
              /\ PairValue(state, PrevOp \div 16) = Operand16(Prev)

(***************************************************************************)
(* C27.  A step on EI (0xFB) or DI (0xF3) ends FAULTED with a non-zero      *)
(* status and the opcode reported, and the interrupt-enable byte of the     *)
(* State is 0 in every reachable state.                                     *)
(***************************************************************************)
InterruptOps == {\hF3, \hFB}

C27_InterruptEnable ==
    /\ state.enable = 0
    /\ (Stepped /\ PrevOp \in InterruptOps) =>
          /\ status = "FAULTED"
          /\ exitCode \notin {NoExit, 0}
          /\ unimpl = PrevOp
          /\ state = Prev

C27_Witness ==
    /\ Stepped
    /\ PrevOp = \hFB
    /\ status = "FAULTED"
    /\ unimpl = \hFB
    /\ state.enable = 0
    /\ state.a = \h12

(***************************************************************************)
(* C28.  AC is false when the program starts and only a step on POP PSW     *)
(* changes it, to bit 4 of the byte popped: it is false until the first     *)
(* POP PSW, and every other instruction (arithmetic, logic, increment,      *)
(* decrement, rotate and the rest) leaves it as it was.                     *)
(***************************************************************************)
C28_OnlyPopPsw ==
    /\ ~state.cond.ac
    /\ [][state'.cond.ac # state.cond.ac =>
             /\ status = "RUNNING"
             /\ MemRead(state.memory, state.pc) = \hF1
             /\ state'.cond.ac = Bit(MemRead(state.memory, state.sp), 4)]_vars

C28_Witness ==
    /\ Stepped
    /\ PrevOp = \hA7
    /\ Prev.cond.ac
    /\ state.cond.ac
    /\ ~state.cond.cy
    /\ state.a = \h12

====
